---- MODULE Spec2Model ----
(***************************************************************************)
(* Model of the IBS_TH1 library (src/unnamed/part_001): the advertisement  *)
(* decode-and-identity-resolution pipeline on top of the noble radio       *)
(* subsystem and a JSON file used as the identity cache's durable storage. *)
(*                                                                         *)
(* All handlers run on one JavaScript event loop, so every action below is *)
(* one macrotask: a public call, one noble event with all of its listeners *)
(* (and the promise continuations they queue), or one completion callback. *)
(***************************************************************************)
EXTENDS Integers, Sequences, FiniteSets, TLC

VARIABLES
    nobleState,           \* noble.state
    scanning,             \* whether noble has been asked to scan (start/stopScanning)
    discoverListeners,    \* listeners of noble's 'discover' event, in registration order
    stateChangeListeners, \* listeners of noble's 'stateChange' event, in registration order
    uuid_to_address_,     \* this.uuid_to_address_ : the in-memory identity cache
    disk,                 \* the file ~/.ibs_th1/uuid_to_address
    connecting,           \* scan identifiers with a peripheral.connect awaiting its callback
    disconnecting,        \* scan identifiers with a peripheral.disconnect awaiting its callback
    detached,             \* callbacks subscribed before the latest unsubscribeRealtimeData
    last,                 \* what the latest macrotask did (observation only)
    peer,                 \* a second IBS_TH1 instance, in a process of its own
    calcBuffer,           \* buffer: the bytes given to getCrc16, or read by the field decoding
    calcCrc16,            \* crc16: getCrc16's accumulator
    pc,                   \* where the run of getCrc16 stands
    decoded               \* the fields decoded from buffer

\* The instance under study with its radio subsystem and its file.
instance == <<nobleState, scanning, discoverListeners, stateChangeListeners,
              uuid_to_address_, disk, connecting, disconnecting, detached, last>>

\* One run of getCrc16 or of the field decoding, taken on its own.
calc == <<calcBuffer, calcCrc16, pc, decoded>>

\* What the handlers of the instance under study never touch.
others == <<peer, calcBuffer, calcCrc16, pc, decoded>>

vars == <<nobleState, scanning, discoverListeners, stateChangeListeners,
          uuid_to_address_, disk, connecting, disconnecting, detached, last,
          peer, calcBuffer, calcCrc16, pc, decoded>>

-----------------------------------------------------------------------------
(* Bounds and input domains *)

\* Longest listener list of either noble event that the model explores.
MaxListeners == 2

\* peripheral.uuid values handed out by the radio subsystem.
ScanIds == {"A1", "B2"}

\* The subscriber callback the application passes to subscribeRealtimeData.
Callbacks == {"cb1"}

\* The listener unsubscribeRealtimeData registers: (state) => {}.
NoopListener == "noop"

\* JavaScript null and undefined, as values of peripheral.address and of cache slots.
Null == "<null>"
Undefined == "<undefined>"

\* The hardware address the radio subsystem reports for a device once known.
AddressOf(uuid) == IF uuid = "A1" THEN "AA:BB:CC:DD:EE:FF" ELSE "11:22:33:44:55:66"

Addresses == {AddressOf(u) : u \in ScanIds}

\* peripheral.address as read in the connect callback: known, or not supplied.
ReportedAddresses(uuid) == {AddressOf(uuid), Null, Undefined}

RadioStates == {"unknown", "poweredOff", "poweredOn"}

-----------------------------------------------------------------------------
(* Constants of the program *)

DEVICE_NAME == "sps"

UNKNOWN == 0
BUILT_IN == 1
EXTERNAL == 2

-----------------------------------------------------------------------------
(* getCrc16 *)

\* a ^ b on non-negative integers.
RECURSIVE BitXor(_, _)
BitXor(a, b) ==
    IF a = 0 THEN b
    ELSE IF b = 0 THEN a
    ELSE (((a % 2) + (b % 2)) % 2) + 2 * BitXor(a \div 2, b \div 2)

\* i passes of the inner loop: tmp = crc16 & 1; crc16 >>= 1; if (tmp) crc16 ^= 0xa001.
RECURSIVE Crc16Rounds(_, _)
Crc16Rounds(crc16, i) ==
    IF i = 0 THEN crc16
    ELSE IF crc16 % 2 = 1
         THEN Crc16Rounds(BitXor(crc16 \div 2, 40961), i - 1)
         ELSE Crc16Rounds(crc16 \div 2, i - 1)

\* crc16 ^= byte, then the 8 rounds.
Crc16Byte(crc16, byte) == Crc16Rounds(BitXor(crc16, byte), 8)

RECURSIVE Crc16From(_, _)
Crc16From(crc16, buffer) ==
    IF buffer = <<>> THEN crc16
    ELSE Crc16From(Crc16Byte(crc16, Head(buffer)), Tail(buffer))

getCrc16(buffer) == Crc16From(65535, buffer)

\* buffer.slice(0, 5)
Slice05(buffer) == SubSeq(buffer, 1, IF Len(buffer) < 5 THEN Len(buffer) ELSE 5)

-----------------------------------------------------------------------------
(* Advertisements the radio subsystem may report *)

\* A 9-byte frame as the device builds it: little-endian fields, the checksum
\* of bytes 0-4 at offsets 5-6.
DeviceFrame(temperature_raw, humidity_raw, probe, battery) ==
    LET body == <<temperature_raw % 256, temperature_raw \div 256,
                  humidity_raw % 256, humidity_raw \div 256, probe>>
        crc == getCrc16(body)
    IN  body \o <<crc % 256, crc \div 256, battery, 0>>

\* The same frame with its low checksum byte damaged in transit.
Corrupted(frame) == [frame EXCEPT ![6] = ((frame[6] + 1) % 256)]

FrameWarm == DeviceFrame(2150, 5532, 0, 87)
FrameCold == DeviceFrame(65436, 10000, 1, 100)

\* manufacturerData of the advertisements: two frames of the device, one with a
\* damaged checksum, one cut short, and an empty buffer.
ManufacturerData ==
    { FrameWarm,
      FrameCold,
      Corrupted(FrameWarm),
      SubSeq(FrameWarm, 1, 8),
      <<>> }

\* A 'discover' event: the peripheral's uuid and its advertisement, from
\* the target device or from another device ("tps") sending the same bytes.
\* hasData = FALSE stands for an advertisement without manufacturerData.
Peripherals ==
    [uuid : ScanIds, localName : {DEVICE_NAME},
     hasData : {TRUE}, manufacturerData : ManufacturerData]
    \cup
    [uuid : ScanIds, localName : {"tps"},
     hasData : {TRUE}, manufacturerData : {FrameWarm}]
    \cup
    [uuid : ScanIds, localName : {DEVICE_NAME},
     hasData : {FALSE}, manufacturerData : {<<>>}]

\* getCrc16(buffer.slice(0, 5)) of every buffer above, computed once.
SliceCrc16 == [buffer \in ManufacturerData |-> getCrc16(Slice05(buffer))]

-----------------------------------------------------------------------------
(* The identity cache: a JavaScript object used as a map uuid -> address *)

EmptyMap == [u \in {} |-> Null]

\* obj[key] = value
Put(map, key, value) ==
    [u \in DOMAIN map \cup {key} |-> IF u = key THEN value ELSE map[u]]

\* delete obj[key]
Delete(map, key) == [u \in DOMAIN map \ {key} |-> map[u]]

\* value == null / value != null (loose equality: null and undefined alike)
IsNullish(value) == value \in {Null, Undefined}

\* !peripheral.uuid is false for every non-empty string
Truthy(str) == str # ""

-----------------------------------------------------------------------------
(* IBS_TH1.Config: the durable snapshot *)

\* The file is missing, holds text JSON.parse rejects, or holds a JSON object.
\* JSON.stringify leaves out the properties whose value is undefined.
JsonStringify(data) ==
    [u \in {k \in DOMAIN data : data[k] # Undefined} |-> data[u]]

JsonParse(text) == text

\* What fs.writeFileSync may do: write the whole file, fail before touching it,
\* or fail after truncating it.
WriteOutcomes == {"written", "failed", "torn"}

save(file, data, outcome) ==
    CASE outcome = "written" -> [status |-> "ok", text |-> JsonStringify(data)]
      [] outcome = "failed" -> file
      [] outcome = "torn" -> [status |-> "corrupt", text |-> EmptyMap]

\* Faulty variant of load: the catch block returns {} without saving it.
loadWithoutSave(file) ==
    IF file.status = "ok"
    THEN [data |-> JsonParse(file.text), file |-> file]
    ELSE [data |-> EmptyMap, file |-> file]

\* load(): the parsed object, or {} after rewriting the file with {}.
load(file) ==
    IF file.status = "ok"
    THEN [data |-> JsonParse(file.text), file |-> file]
    ELSE [data |-> EmptyMap, file |-> save(file, EmptyMap, "written")]

\* Faulty variant of ResolvedEntries: the test is !== undefined, which the
\* null of a pending entry passes.
ResolvedEntriesStrict(map) ==
    [u \in {k \in DOMAIN map : map[k] # Undefined} |-> map[u]]

\* Faulty variant of ResolvedEntries: every entry is collected.
ResolvedEntriesUnfiltered(map) == map

\* The loop of connect_ collecting the entries whose value is != null.
ResolvedEntries(map) ==
    [u \in {k \in DOMAIN map : ~IsNullish(map[k])} |-> map[u]]

\* The files a new instance may find: none, an unreadable one, or a snapshot
\* written by an earlier run.
SavedSnapshots ==
    {m \in UNION {[S -> Addresses] : S \in SUBSET ScanIds} :
        \A u \in DOMAIN m : m[u] = AddressOf(u)}

InitialFiles ==
    {[status |-> "missing", text |-> EmptyMap], [status |-> "corrupt", text |-> EmptyMap]}
    \cup {[status |-> "ok", text |-> m] : m \in SavedSnapshots}

-----------------------------------------------------------------------------
(* onDiscover_ *)

IsTargetDevice(peripheral) == peripheral.localName = DEVICE_NAME

\* !buffer || buffer.byteLength != 9, negated
HasExpectedData(peripheral) ==
    peripheral.hasData /\ Len(peripheral.manufacturerData) = 9

\* buffer[6] * 256 + buffer[5] against getCrc16(buffer.slice(0, 5))
\* (offsets are 0-based in the source, 1-based here)
\* Faulty variant of CrcMatches: the checksum comparison is left out.
CrcMatchesAlways(buffer) == TRUE

CrcMatches(buffer) ==
    buffer[7] * 256 + buffer[6] = SliceCrc16[buffer]

\* Faulty variant of MarkPending: the entry is not marked before connect_.
MarkPendingSkipped(map, uuid) == map

MarkPending(map, uuid) == Put(map, uuid, Null)

\* Faulty variant of ResolutionInFlight: a strict comparison with undefined,
\* which the null that marks a pending entry does not satisfy.
ResolutionInFlightStrict(map, uuid) == map[uuid] = Undefined

\* this.uuid_to_address_[peripheral.uuid] == null
ResolutionInFlight(map, uuid) == IsNullish(map[uuid])

\* Temperature and humidity are kept in hundredths (the source divides by 100).
\* Faulty variant of DecodeTemperature: the raw value is taken as unsigned.
DecodeTemperatureUnsigned(buffer) == buffer[2] * 256 + buffer[1]

DecodeTemperature(buffer) ==
    LET temperature_raw_value == buffer[2] * 256 + buffer[1]
    IN  IF temperature_raw_value >= 32768
        THEN temperature_raw_value - 65536
        ELSE temperature_raw_value

DecodeHumidity(buffer) == buffer[4] * 256 + buffer[3]

DecodeProbeType(buffer) ==
    IF buffer[5] = 0 THEN BUILT_IN
    ELSE IF buffer[5] = 1 THEN EXTERNAL
    ELSE UNKNOWN

\* Faulty variant of RealtimeData: address keeps the constructor's null.
RealtimeDataWithoutAddress(map, peripheral) ==
    LET buffer == peripheral.manufacturerData
    IN  [uuid |-> peripheral.uuid,
         address |-> Null,
         temperature |-> DecodeTemperature(buffer),
         humidity |-> DecodeHumidity(buffer),
         probeType |-> DecodeProbeType(buffer),
         battery |-> buffer[8]]

\* new IBS_TH1.RealtimeData with its fields assigned (date left out).
RealtimeData(map, peripheral) ==
    LET buffer == peripheral.manufacturerData
    IN  [uuid |-> peripheral.uuid,
         address |-> map[peripheral.uuid],
         temperature |-> DecodeTemperature(buffer),
         humidity |-> DecodeHumidity(buffer),
         probeType |-> DecodeProbeType(buffer),
         battery |-> buffer[8]]

\* One run of onDiscover_'s promise executor on the cache `map`: the cache it
\* leaves, whether it called connect_, how the promise settled, and the value
\* it resolved with (a sequence of zero or one RealtimeData).
onDiscover_(map, peripheral) ==
    LET Rejected(reason) ==
            [map |-> map, connect |-> FALSE, outcome |-> reason, data |-> <<>>]
    IN  IF ~IsTargetDevice(peripheral) THEN Rejected("Not a target device")
        ELSE IF ~HasExpectedData(peripheral) THEN Rejected("Unexpected advertisement data")
        ELSE IF ~CrcMatches(peripheral.manufacturerData) THEN Rejected("CRC error")
        ELSE IF ~(peripheral.uuid \in DOMAIN map)
        THEN [map |-> MarkPending(map, peripheral.uuid), connect |-> TRUE,
              outcome |-> "Address fetch started", data |-> <<>>]
        ELSE IF ResolutionInFlight(map, peripheral.uuid)
        THEN Rejected("Address fetch on flight")
        ELSE [map |-> map, connect |-> FALSE, outcome |-> "resolved",
              data |-> <<RealtimeData(map, peripheral)>>]

\* noble.emit('discover', peripheral): every listener registered by scanStart
\* runs onDiscover_ in registration order; the continuations that call the
\* subscriber's callback run afterwards, in the same order.
RECURSIVE EmitDiscover(_, _, _)
EmitDiscover(listeners, peripheral, acc) ==
    IF listeners = <<>> THEN acc
    ELSE LET r == onDiscover_(acc.map, peripheral)
             callback == Head(listeners)
         IN  EmitDiscover(Tail(listeners), peripheral,
                 [map |-> r.map,
                  started |-> acc.started + (IF r.connect THEN 1 ELSE 0),
                  outcomes |-> Append(acc.outcomes, r.outcome),
                  delivered |-> acc.delivered \o
                      [i \in 1..Len(r.data) |-> [callback |-> callback, data |-> r.data[i]]]])

-----------------------------------------------------------------------------
(* Observation of the latest macrotask *)

NoPeripheral ==
    [uuid |-> "", localName |-> "", hasData |-> FALSE, manufacturerData |-> <<>>]

NoFile == [status |-> "none", text |-> EmptyMap]

NothingBefore == [uuid_to_address_ |-> EmptyMap, connecting |-> {}]

\* Nothing observed; each action overrides the fields it gives a meaning to.
Quiet(op) ==
    [op |-> op,
     peripheral |-> NoPeripheral, \* the 'discover' event handled, or the device of the callback
     outcomes |-> <<>>,           \* how each onDiscover_ promise settled
     delivered |-> <<>>,          \* the subscriber callbacks invoked, with their argument
     started |-> 0,               \* calls of peripheral.connect
     disconnects |-> 0,           \* calls of peripheral.disconnect
     threw |-> FALSE,             \* an exception left the handler
     err |-> FALSE,               \* the err argument of a completion callback
     address |-> Null,            \* peripheral.address read by the connect callback
     write |-> "none",            \* what the save of the snapshot did
     found |-> NoFile,            \* the file as the constructor's load() found it
     before |-> NothingBefore]    \* the instance that the process stop ended

-----------------------------------------------------------------------------
(* What stands still while the instance under study runs *)

\* No second instance has been constructed.
NoPeer == [constructed |-> FALSE, uuid_to_address_ |-> EmptyMap, connecting |-> {}]

\* No run of getCrc16 or of the field decoding is being followed.
AtRest == [at |-> "rest", byte |-> 0, i |-> 0]

CalcAtRest ==
    /\ calcBuffer = <<>>
    /\ calcCrc16 = 0
    /\ pc = AtRest
    /\ decoded = <<>>

-----------------------------------------------------------------------------
(* Initial state: a constructed instance, nothing subscribed *)

Init ==
    /\ nobleState \in RadioStates
    /\ scanning = FALSE
    /\ discoverListeners = <<>>
    /\ stateChangeListeners = <<>>
    /\ connecting = [u \in ScanIds |-> 0]
    /\ disconnecting = [u \in ScanIds |-> 0]
    /\ detached = {}
    /\ \E file \in InitialFiles :
          /\ uuid_to_address_ = load(file).data
          /\ disk = load(file).file
          /\ last = [Quiet("constructor") EXCEPT !.found = file]
    /\ peer = NoPeer
    /\ CalcAtRest

-----------------------------------------------------------------------------
(* subscribeRealtimeData / unsubscribeRealtimeData *)

\* scanStart: noble.on('discover', ...) appends a listener bound to callback.
scanStart(listeners, callback) == Append(listeners, callback)

Range(seq) == {seq[i] : i \in DOMAIN seq}

subscribeRealtimeData(callback) ==
    /\ IF nobleState = "poweredOn"
       THEN /\ Len(discoverListeners) < MaxListeners
            /\ discoverListeners' = scanStart(discoverListeners, callback)
            /\ scanning' = TRUE
            /\ UNCHANGED stateChangeListeners
       ELSE /\ Len(stateChangeListeners) < MaxListeners
            /\ stateChangeListeners' = Append(stateChangeListeners, callback)
            /\ UNCHANGED <<discoverListeners, scanning>>
    /\ detached' = detached \ {callback}
    /\ last' = Quiet("subscribe")
    /\ UNCHANGED <<nobleState, uuid_to_address_, disk, connecting, disconnecting>>
    /\ UNCHANGED others

\* noble.on('stateChange', (state) => {}) adds a listener; none is removed.
unsubscribeRealtimeData ==
    /\ Len(stateChangeListeners) < MaxListeners
    /\ stateChangeListeners' = Append(stateChangeListeners, NoopListener)
    /\ scanning' = FALSE
    /\ detached' = (Range(discoverListeners) \cup Range(stateChangeListeners)) \ {NoopListener}
    /\ last' = Quiet("unsubscribe")
    /\ UNCHANGED <<nobleState, discoverListeners, uuid_to_address_, disk,
                   connecting, disconnecting>>
    /\ UNCHANGED others

-----------------------------------------------------------------------------
(* noble's 'stateChange' event *)

\* noble.emit('stateChange', state): the listeners run in registration order.
\* A listener registered by subscribeRealtimeData calls scanStart on
\* 'poweredOn' and this.scanStop() otherwise; the instance has no scanStop
\* method, so that call throws a TypeError out of emit and the listeners
\* after it are not run.
RECURSIVE EmitStateChange(_, _, _)
EmitStateChange(listeners, state, acc) ==
    IF listeners = <<>> \/ acc.threw THEN acc
    ELSE LET listener == Head(listeners)
         IN  IF listener = NoopListener
             THEN EmitStateChange(Tail(listeners), state, acc)
             ELSE IF state = "poweredOn"
             THEN EmitStateChange(Tail(listeners), state,
                      [acc EXCEPT !.discover = scanStart(acc.discover, listener),
                                  !.scanning = TRUE])
             ELSE EmitStateChange(Tail(listeners), state, [acc EXCEPT !.threw = TRUE])

\* The radio reports a state. A radio that is not powered on is not scanning.
StateChange(state) ==
    LET r == EmitStateChange(stateChangeListeners, state,
                 [discover |-> discoverListeners,
                  scanning |-> scanning /\ state = "poweredOn",
                  threw |-> FALSE])
    IN  /\ Len(r.discover) <= MaxListeners
        /\ nobleState' = state
        /\ discoverListeners' = r.discover
        /\ scanning' = r.scanning
        /\ last' = [Quiet("stateChange") EXCEPT !.threw = r.threw]
        /\ UNCHANGED <<stateChangeListeners, uuid_to_address_, disk,
                       connecting, disconnecting, detached>>
        /\ UNCHANGED others

-----------------------------------------------------------------------------
(* noble's 'discover' event *)

Discover(peripheral) ==
    LET r == EmitDiscover(discoverListeners, peripheral,
                 [map |-> uuid_to_address_, started |-> 0,
                  outcomes |-> <<>>, delivered |-> <<>>])
    IN  /\ scanning
        /\ uuid_to_address_' = r.map
        /\ connecting' = [connecting EXCEPT ![peripheral.uuid] = @ + r.started]
        /\ last' = [Quiet("discover") EXCEPT !.peripheral = peripheral,
                                             !.outcomes = r.outcomes,
                                             !.delivered = r.delivered,
                                             !.started = r.started]
        /\ UNCHANGED <<nobleState, scanning, discoverListeners, stateChangeListeners,
                       disk, disconnecting, detached>>
        /\ UNCHANGED others

-----------------------------------------------------------------------------
(* connect_: the callback of peripheral.connect, and of peripheral.disconnect *)

Forget(map, uuid) == Delete(map, uuid)

\* Faulty variant of StoreAddress: the whole cache is replaced by the new entry.
StoreAddressAlone(map, uuid, address) == Put(EmptyMap, uuid, address)

StoreAddress(map, uuid, address) == Put(map, uuid, address)

\* Faulty variant of AfterConnect: the result of the handshake is dropped.
AfterConnectDropped(map, uuid, address) == map

\* The cache after a connect callback without err: the entry is deleted when
\* peripheral.uuid is falsy, and set to peripheral.address otherwise.
AfterConnect(map, uuid, address) ==
    IF ~Truthy(uuid) THEN Forget(map, uuid) ELSE StoreAddress(map, uuid, address)

\* The cache after a connect callback with err: the callback rejects and returns.
AfterConnectError(map, uuid) == map

\* Faulty variant of ConnectCallback: peripheral.disconnect is called last,
\* after the save, so that a save that throws leaves the connection open.
ConnectCallbackDisconnectLast(uuid, err, address, outcome) ==
    /\ connecting[uuid] > 0
    /\ connecting' = [connecting EXCEPT ![uuid] = @ - 1]
    /\ IF err
       THEN /\ uuid_to_address_' = AfterConnectError(uuid_to_address_, uuid)
            /\ last' = [Quiet("connect") EXCEPT !.peripheral.uuid = uuid, !.err = TRUE]
            /\ UNCHANGED <<disk, disconnecting>>
       ELSE /\ uuid_to_address_' = AfterConnect(uuid_to_address_, uuid, address)
            /\ disk' = save(disk, ResolvedEntries(uuid_to_address_'), outcome)
            /\ disconnecting' =
                  [disconnecting EXCEPT ![uuid] = @ + (IF outcome = "written" THEN 1 ELSE 0)]
            /\ last' = [Quiet("connect") EXCEPT !.peripheral.uuid = uuid,
                            !.disconnects = (IF outcome = "written" THEN 1 ELSE 0),
                            !.address = address,
                            !.write = outcome, !.threw = (outcome # "written")]
    /\ UNCHANGED <<nobleState, scanning, discoverListeners, stateChangeListeners, detached>>
    /\ UNCHANGED others

ConnectCallback(uuid, err, address, outcome) ==
    /\ connecting[uuid] > 0
    /\ connecting' = [connecting EXCEPT ![uuid] = @ - 1]
    /\ IF err
       THEN /\ uuid_to_address_' = AfterConnectError(uuid_to_address_, uuid)
            /\ last' = [Quiet("connect") EXCEPT !.peripheral.uuid = uuid, !.err = TRUE]
            /\ UNCHANGED <<disk, disconnecting>>
       ELSE /\ disconnecting' = [disconnecting EXCEPT ![uuid] = @ + 1]
            /\ uuid_to_address_' = AfterConnect(uuid_to_address_, uuid, address)
            /\ IF Truthy(uuid)
               THEN /\ disk' = save(disk, ResolvedEntries(uuid_to_address_'), outcome)
                    /\ last' = [Quiet("connect") EXCEPT !.peripheral.uuid = uuid,
                                    !.disconnects = 1, !.address = address,
                                    !.write = outcome, !.threw = (outcome # "written")]
               ELSE /\ UNCHANGED disk
                    /\ last' = [Quiet("connect") EXCEPT !.peripheral.uuid = uuid,
                                    !.disconnects = 1, !.address = address]
    /\ UNCHANGED <<nobleState, scanning, discoverListeners, stateChangeListeners, detached>>
    /\ UNCHANGED others

\* err => reject(...): the promise of connect_ is settled by then, or was left
\* unsettled by a save that threw; either way no state of the instance changes.
DisconnectCallback(uuid, err) ==
    /\ disconnecting[uuid] > 0
    /\ disconnecting' = [disconnecting EXCEPT ![uuid] = @ - 1]
    /\ last' = [Quiet("disconnect") EXCEPT !.peripheral.uuid = uuid, !.err = err]
    /\ UNCHANGED <<nobleState, scanning, discoverListeners, stateChangeListeners,
                   uuid_to_address_, disk, connecting, detached>>
    /\ UNCHANGED others

-----------------------------------------------------------------------------
(* The process stops and a new one constructs an instance *)

\* The process ends at any point: its listeners, its cache and the handshakes
\* it had in flight are gone, the file stays. The constructor of the next
\* process loads the file; the radio is in whatever state it is in. (A
\* constructor whose save throws leaves no instance; the step leads to the
\* next construction that returns.)
Restart(state) ==
    /\ nobleState' = state
    /\ scanning' = FALSE
    /\ discoverListeners' = <<>>
    /\ stateChangeListeners' = <<>>
    /\ uuid_to_address_' = load(disk).data
    /\ disk' = load(disk).file
    /\ connecting' = [u \in ScanIds |-> 0]
    /\ disconnecting' = [u \in ScanIds |-> 0]
    /\ detached' = {}
    /\ last' = [Quiet("restart") EXCEPT
                   !.found = disk,
                   !.before = [uuid_to_address_ |-> uuid_to_address_,
                               connecting |-> {u \in ScanIds : connecting[u] > 0}]]
    /\ UNCHANGED others

-----------------------------------------------------------------------------

Next ==
    \/ \E callback \in Callbacks : subscribeRealtimeData(callback)
    \/ unsubscribeRealtimeData
    \/ \E state \in RadioStates : StateChange(state)
    \/ \E peripheral \in Peripherals : Discover(peripheral)
    \/ \E uuid \in ScanIds, err \in BOOLEAN, outcome \in WriteOutcomes :
          \E address \in ReportedAddresses(uuid) :
              ConnectCallback(uuid, err, address, outcome)
    \/ \E uuid \in ScanIds, err \in BOOLEAN : DisconnectCallback(uuid, err)

Spec == Init /\ [][Next]_vars

\* The instance over several process lifetimes.
NextRestart ==
    \/ Next
    \/ \E state \in RadioStates : Restart(state)

SpecRestart == Init /\ [][NextRestart]_vars

-----------------------------------------------------------------------------
(* A second instance, constructed independently in a process of its own *)

\* The callback subscribed to the second instance.
PeerCallback == "cb2"

\* new IBS_TH1() in the other process: the same Config('uuid_to_address'),
\* hence the same file under the home directory.
PeerConstruct ==
    /\ ~peer.constructed
    /\ peer' = [constructed |-> TRUE,
                uuid_to_address_ |-> load(disk).data,
                connecting |-> {}]
    /\ disk' = load(disk).file
    /\ last' = [Quiet("peer constructor") EXCEPT !.found = disk]
    /\ UNCHANGED <<nobleState, scanning, discoverListeners, stateChangeListeners,
                   uuid_to_address_, connecting, disconnecting, detached>>
    /\ UNCHANGED calc

\* A 'discover' event of the other process's radio subsystem, with the second
\* instance subscribed and scanning.
PeerDiscover(peripheral) ==
    LET r == onDiscover_(peer.uuid_to_address_, peripheral)
    IN  /\ peer.constructed
        /\ peer' = [peer EXCEPT
                       !.uuid_to_address_ = r.map,
                       !.connecting = IF r.connect THEN @ \cup {peripheral.uuid} ELSE @]
        /\ last' = [Quiet("peer discover") EXCEPT
                       !.peripheral = peripheral,
                       !.outcomes = <<r.outcome>>,
                       !.delivered = [i \in 1..Len(r.data) |->
                                         [callback |-> PeerCallback, data |-> r.data[i]]],
                       !.started = IF r.connect THEN 1 ELSE 0]
        /\ UNCHANGED <<nobleState, scanning, discoverListeners, stateChangeListeners,
                       uuid_to_address_, disk, connecting, disconnecting, detached>>
        /\ UNCHANGED calc

\* The callback of peripheral.connect in the second instance's connect_.
PeerConnectCallback(uuid, err, address, outcome) ==
    /\ peer.constructed
    /\ uuid \in peer.connecting
    /\ IF err
       THEN /\ peer' = [peer EXCEPT
                           !.uuid_to_address_ = AfterConnectError(@, uuid),
                           !.connecting = @ \ {uuid}]
            /\ last' = [Quiet("peer connect") EXCEPT !.peripheral.uuid = uuid, !.err = TRUE]
            /\ UNCHANGED disk
       ELSE /\ peer' = [peer EXCEPT
                           !.uuid_to_address_ = AfterConnect(@, uuid, address),
                           !.connecting = @ \ {uuid}]
            /\ disk' = save(disk, ResolvedEntries(peer'.uuid_to_address_), outcome)
            /\ last' = [Quiet("peer connect") EXCEPT !.peripheral.uuid = uuid,
                            !.disconnects = 1, !.address = address,
                            !.write = outcome, !.threw = (outcome # "written")]
    /\ UNCHANGED <<nobleState, scanning, discoverListeners, stateChangeListeners,
                   uuid_to_address_, connecting, disconnecting, detached>>
    /\ UNCHANGED calc

\* The advertisements both radios hear: one frame of each device.
SharedAdvertisements ==
    [uuid : ScanIds, localName : {DEVICE_NAME},
     hasData : {TRUE}, manufacturerData : {FrameWarm}]

\* Both instances run with the radio powered on; the first one is the
\* instance of Spec, the second is constructed at any time.
InitCoexist == Init /\ nobleState = "poweredOn"

NextCoexist ==
    \/ \E callback \in Callbacks : subscribeRealtimeData(callback)
    \/ \E peripheral \in SharedAdvertisements : Discover(peripheral)
    \/ \E uuid \in ScanIds, err \in BOOLEAN, outcome \in WriteOutcomes :
          \E address \in ReportedAddresses(uuid) :
              ConnectCallback(uuid, err, address, outcome)
    \/ PeerConstruct
    \/ \E peripheral \in SharedAdvertisements : PeerDiscover(peripheral)
    \/ \E uuid \in ScanIds, err \in BOOLEAN, outcome \in WriteOutcomes :
          \E address \in ReportedAddresses(uuid) :
              PeerConnectCallback(uuid, err, address, outcome)

SpecCoexist == InitCoexist /\ [][NextCoexist]_vars

-----------------------------------------------------------------------------
(* getCrc16 and the field decoding of onDiscover_, followed on their own *)

\* Longest buffer given to getCrc16.
MaxCrcLen == 5

\* The values a byte of a Buffer takes.
Bytes == 0..255

\* Bytes the buffers given to getCrc16 are made of.
CrcBytes == {0, 1, 128, 255}

RECURSIVE SeqsUpTo(_, _)
SeqsUpTo(S, n) ==
    IF n = 0 THEN {<<>>}
    ELSE LET shorter == SeqsUpTo(S, n - 1)
         IN  shorter \cup {Append(q, x) : q \in {r \in shorter : Len(r) = n - 1}, x \in S}

\* buffer.slice(0, 5) of the two frames of the device, every buffer of one
\* byte, and every sequence of at most MaxCrcLen of the bytes above.
CrcInputs ==
    {Slice05(FrameWarm), Slice05(FrameCold)}
    \cup {<<byte>> : byte \in Bytes}
    \cup SeqsUpTo(CrcBytes, MaxCrcLen)

\* Bytes 0-3 of manufacturerData: every temperature with one humidity, and
\* every humidity with one temperature.
DecodeInputs(low, high) ==
    {<<low, high, FrameWarm[3], FrameWarm[4]>>, <<FrameWarm[1], FrameWarm[2], low, high>>}

\* An instance that was constructed and is left alone.
InstanceAtRest ==
    /\ nobleState = "unknown"
    /\ scanning = FALSE
    /\ discoverListeners = <<>>
    /\ stateChangeListeners = <<>>
    /\ uuid_to_address_ = EmptyMap
    /\ disk = [status |-> "ok", text |-> EmptyMap]
    /\ connecting = [u \in ScanIds |-> 0]
    /\ disconnecting = [u \in ScanIds |-> 0]
    /\ detached = {}
    /\ last = Quiet("constructor")
    /\ peer = NoPeer

\* let crc16 = 0xffff, before the first pass of `for (let byte of buffer)`.
InitCrc ==
    /\ InstanceAtRest
    /\ calcBuffer \in CrcInputs
    /\ calcCrc16 = 65535
    /\ pc = [at |-> "for byte", byte |-> 1, i |-> 0]
    /\ decoded = <<>>

\* crc16 ^= byte, for the next byte of the buffer.
Crc16TakeByte ==
    /\ pc.at = "for byte"
    /\ pc.byte <= Len(calcBuffer)
    /\ calcCrc16' = BitXor(calcCrc16, calcBuffer[pc.byte])
    /\ pc' = [pc EXCEPT !.at = "for i", !.i = 0]
    /\ UNCHANGED <<calcBuffer, decoded, peer>>
    /\ UNCHANGED instance

\* Faulty variant of Crc16Shift: the constant is XORed in before the shift.
Crc16ShiftLate(crc16) ==
    IF crc16 % 2 = 1 THEN BitXor(crc16, 40961) \div 2 ELSE crc16 \div 2

\* tmp = crc16 & 0x1; crc16 >>= 1; if (tmp) crc16 ^= 0xa001
Crc16Shift(crc16) ==
    IF crc16 % 2 = 1 THEN BitXor(crc16 \div 2, 40961) ELSE crc16 \div 2

\* One pass of `for (let i = 0; i < 8; i++)`; after the eighth the outer loop
\* moves to the next byte.
Crc16Round ==
    /\ pc.at = "for i"
    /\ pc.i < 8
    /\ calcCrc16' = Crc16Shift(calcCrc16)
    /\ pc' = IF pc.i + 1 < 8
             THEN [pc EXCEPT !.i = @ + 1]
             ELSE [at |-> "for byte", byte |-> pc.byte + 1, i |-> 0]
    /\ UNCHANGED <<calcBuffer, decoded, peer>>
    /\ UNCHANGED instance

\* return crc16
Crc16Return ==
    /\ pc.at = "for byte"
    /\ pc.byte > Len(calcBuffer)
    /\ pc' = [pc EXCEPT !.at = "return"]
    /\ UNCHANGED <<calcBuffer, calcCrc16, decoded, peer>>
    /\ UNCHANGED instance

NextCrc == Crc16TakeByte \/ Crc16Round \/ Crc16Return

SpecCrc == InitCrc /\ [][NextCrc]_vars

\* onDiscover_ has passed its checks and is about to decode the buffer.
InitDecode ==
    /\ InstanceAtRest
    /\ \E low \in Bytes, high \in Bytes : calcBuffer \in DecodeInputs(low, high)
    /\ calcCrc16 = 0
    /\ pc = [at |-> "decode", byte |-> 0, i |-> 0]
    /\ decoded = <<>>

\* The temperature and the humidity as onDiscover_ computes them.
Decode ==
    /\ pc.at = "decode"
    /\ decoded' = <<[temperature |-> DecodeTemperature(calcBuffer),
                     humidity |-> DecodeHumidity(calcBuffer)]>>
    /\ pc' = [pc EXCEPT !.at = "decoded"]
    /\ UNCHANGED <<calcBuffer, calcCrc16, peer>>
    /\ UNCHANGED instance

NextDecode == Decode

SpecDecode == InitDecode /\ [][NextDecode]_vars

-----------------------------------------------------------------------------
(* Vocabulary of the properties, stated on the data rather than through the
   operators of the model *)

\* A value that is a hardware address, neither null nor undefined.
IsAddress(value) == value \notin {Null, Undefined}

\* The three entry states of the data model in a cache: no key, a key without
\* an address, a key with an address.
AbsentIn(map, uuid) == uuid \notin DOMAIN map
PendingIn(map, uuid) == uuid \in DOMAIN map /\ ~IsAddress(map[uuid])
ResolvedIn(map, uuid) == uuid \in DOMAIN map /\ IsAddress(map[uuid])

EntryAbsent(uuid) == AbsentIn(uuid_to_address_, uuid)
EntryPending(uuid) == PendingIn(uuid_to_address_, uuid)
EntryResolved(uuid) == ResolvedIn(uuid_to_address_, uuid)

\* The advertisement carries the target name and 9 bytes whose little-endian
\* checksum at offsets 5-6 is the checksum of bytes 0-4.
ValidAdvertisement(p) ==
    /\ p.localName = "sps"
    /\ p.hasData
    /\ Len(p.manufacturerData) = 9
    /\ p.manufacturerData[6] + 256 * p.manufacturerData[7]
          = SliceCrc16[p.manufacturerData]

\* The latest macrotask was a 'discover' event that reached a listener.
Discovered == last.op = "discover" /\ Len(last.outcomes) > 0

-----------------------------------------------------------------------------
(* C1 *)

\* C1: mutual exclusion of resolution. In every reachable state at most one
\* connect is in flight per scan identifier, its entry is pending while it is,
\* and a discovery that finds a handshake in flight starts no other one.
C1_OneHandshakePerScanId ==
    /\ \A u \in ScanIds :
          /\ connecting[u] <= 1
          /\ connecting[u] = 1 => EntryPending(u)
    /\ last.op = "discover" => last.started <= 1

\* A valid discovery arrived while the handshake of its scan identifier was
\* in flight, and was turned away.
C1_Witness ==
    /\ Discovered
    /\ ValidAdvertisement(last.peripheral)
    /\ last.started = 0
    /\ connecting[last.peripheral.uuid] = 1
    /\ \A i \in DOMAIN last.outcomes : last.outcomes[i] = "Address fetch on flight"

-----------------------------------------------------------------------------
(* C2 *)

\* C2: retry after connect failure. Once the connect of a handshake has
\* completed with an error, the entry of its scan identifier is absent.
C2_ForgetOnConnectError ==
    (last.op = "connect" /\ last.err) => EntryAbsent(last.peripheral.uuid)

-----------------------------------------------------------------------------
(* C3 *)

\* C3: retry when no address is obtained. Once a connect has succeeded
\* without the radio supplying an address, the entry is absent.
C3_ForgetWithoutAddress ==
    (last.op = "connect" /\ ~last.err /\ ~IsAddress(last.address))
        => EntryAbsent(last.peripheral.uuid)

-----------------------------------------------------------------------------
(* C4 *)

\* C4: the callback only receives fully resolved Readings. Every invocation
\* carries a Reading of an advertisement that passes the name, length and
\* checksum checks, for a scan identifier whose entry is resolved, and the
\* Reading's address is that entry's address, never null or undefined.
C4_CallbackGetsResolvedReadings ==
    \A i \in DOMAIN last.delivered :
        LET reading == last.delivered[i].data
        IN  /\ last.op = "discover"
            /\ ValidAdvertisement(last.peripheral)
            /\ reading.uuid = last.peripheral.uuid
            /\ EntryResolved(reading.uuid)
            /\ IsAddress(reading.address)
            /\ reading.address = uuid_to_address_[reading.uuid]

\* The callback was invoked with a Reading.
C4_Witness ==
    /\ Discovered
    /\ Len(last.delivered) > 0
    /\ last.delivered[1].data.address = AddressOf(last.peripheral.uuid)

-----------------------------------------------------------------------------
(* C5 *)

\* C5: unsubscribeRealtimeData stops delivery. A callback subscribed before
\* the latest unsubscribeRealtimeData, and not subscribed again since, is not
\* invoked.
C5_NoDeliveryAfterUnsubscribe ==
    \A i \in DOMAIN last.delivered : last.delivered[i].callback \notin detached

-----------------------------------------------------------------------------
(* C6 *)

\* C6: at most one discovery subscription per instance, so that one discovery
\* event invokes the callback at most once.
C6_OneDiscoverSubscription ==
    /\ Len(discoverListeners) <= 1
    /\ Len(last.delivered) <= 1

-----------------------------------------------------------------------------
(* C7 *)

\* C7: cache monotonicity. In every step a resolved entry stays resolved with
\* the same address, and an absent entry does not become resolved.
C7_Step ==
    \A u \in ScanIds :
        /\ EntryResolved(u) =>
              /\ ResolvedIn(uuid_to_address_', u)
              /\ uuid_to_address_'[u] = uuid_to_address_[u]
        /\ EntryAbsent(u) => ~ResolvedIn(uuid_to_address_', u)

C7_CacheMonotonic == [][C7_Step]_vars

\* A handshake has taken an entry from pending to resolved.
C7_Witness ==
    /\ last.op = "connect"
    /\ ~last.err
    /\ EntryResolved(last.peripheral.uuid)
    /\ uuid_to_address_[last.peripheral.uuid] = last.address

-----------------------------------------------------------------------------
(* C8 *)

\* C8: filtering has no effect. A discovery event whose advertisement is not
\* valid is settled by one of the three filters in every listener: no Reading
\* is decoded, no callback invoked, no connect issued, and the cache and the
\* durable snapshot keep their value.
C8_Step ==
    (last'.op = "discover" /\ ~ValidAdvertisement(last'.peripheral)) =>
        /\ \A i \in DOMAIN last'.outcomes :
              last'.outcomes[i] \in {"Not a target device",
                                     "Unexpected advertisement data", "CRC error"}
        /\ last'.delivered = <<>>
        /\ last'.started = 0
        /\ UNCHANGED <<uuid_to_address_, disk, connecting, disconnecting>>

C8_FilteredEventsHaveNoEffect == [][C8_Step]_vars

\* A frame with the target name and 9 bytes but a damaged checksum reached a
\* listener, for a scan identifier that is still unknown.
C8_Witness ==
    /\ Discovered
    /\ last.peripheral.localName = "sps"
    /\ last.peripheral.hasData
    /\ Len(last.peripheral.manufacturerData) = 9
    /\ ~ValidAdvertisement(last.peripheral)
    /\ EntryAbsent(last.peripheral.uuid)

-----------------------------------------------------------------------------
(* C9 *)

\* C9: the discovery that starts a resolution is discarded. A valid discovery
\* of an absent scan identifier issues one connect, leaves the entry pending
\* and invokes no callback; a discovery of a pending one does nothing; and a
\* callback is invoked only for an entry resolved before the event, with that
\* entry's address.
C9_Step ==
    (last'.op = "discover" /\ Len(last'.outcomes) > 0
        /\ ValidAdvertisement(last'.peripheral)) =>
        LET u == last'.peripheral.uuid
        IN  /\ EntryAbsent(u) =>
                  /\ last'.started = 1
                  /\ connecting'[u] = connecting[u] + 1
                  /\ PendingIn(uuid_to_address_', u)
                  /\ last'.delivered = <<>>
            /\ EntryPending(u) =>
                  /\ last'.started = 0
                  /\ UNCHANGED <<uuid_to_address_, connecting>>
                  /\ last'.delivered = <<>>
            /\ last'.delivered # <<>> =>
                  /\ EntryResolved(u)
                  /\ \A i \in DOMAIN last'.delivered :
                        last'.delivered[i].data.address = uuid_to_address_[u]

C9_StartingDiscoveryIsDiscarded == [][C9_Step]_vars

\* A discovery has started a resolution: one connect, entry pending, nothing
\* delivered.
C9_Witness ==
    /\ Discovered
    /\ last.started = 1
    /\ last.delivered = <<>>
    /\ EntryPending(last.peripheral.uuid)
    /\ connecting[last.peripheral.uuid] = 1

-----------------------------------------------------------------------------
(* C10 *)

\* C10: persistence on resolve. Right after a connect callback that stored
\* its result and wrote the snapshot, the snapshot holds exactly the resolved
\* entries of the cache with their addresses; and in every reachable state the
\* snapshot holds no pending entry.
C10_SnapshotIsResolvedEntries ==
    /\ (last.op = "connect" /\ ~last.err /\ last.write = "written") =>
          /\ disk.status = "ok"
          /\ DOMAIN disk.text = {u \in ScanIds : EntryResolved(u)}
          /\ \A u \in DOMAIN disk.text : disk.text[u] = uuid_to_address_[u]
    /\ \A u \in DOMAIN disk.text : IsAddress(disk.text[u])

\* A resolution was persisted while another scan identifier was pending.
C10_Witness ==
    /\ last.op = "connect"
    /\ ~last.err
    /\ last.write = "written"
    /\ EntryResolved(last.peripheral.uuid)
    /\ last.peripheral.uuid \in DOMAIN disk.text
    /\ \E v \in ScanIds : EntryPending(v)

-----------------------------------------------------------------------------
(* C11 *)

\* C11: restart round trip. Right after a process stop and the construction
\* of a new instance, every scan identifier the file held as resolved is
\* resolved with the same address, every identifier that was pending or absent
\* at the stop is absent, and no handshake is in flight, so that nothing stands
\* in the way of a fresh handshake.
C11_RestartRoundTrip ==
    last.op = "restart" =>
        \A u \in ScanIds :
            /\ (last.found.status = "ok" /\ u \in DOMAIN last.found.text) =>
                  /\ EntryResolved(u)
                  /\ uuid_to_address_[u] = last.found.text[u]
            /\ ~ResolvedIn(last.before.uuid_to_address_, u) => EntryAbsent(u)
            /\ ~EntryPending(u)
            /\ connecting[u] = 0

\* The process stopped in the middle of a handshake, with another scan
\* identifier resolved and saved: the first came back absent, the second
\* resolved.
C11_Witness ==
    /\ last.op = "restart"
    /\ \E u \in last.before.connecting :
          /\ PendingIn(last.before.uuid_to_address_, u)
          /\ EntryAbsent(u)
    /\ \E v \in ScanIds :
          /\ ResolvedIn(last.before.uuid_to_address_, v)
          /\ v \in DOMAIN last.found.text
          /\ EntryResolved(v)
          /\ uuid_to_address_[v] = last.before.uuid_to_address_[v]

-----------------------------------------------------------------------------
(* C12 *)

\* Every callback that was subscribed has been unsubscribed since, and one of
\* them had been waiting for the radio.
IdleAfterAwaiting ==
    /\ \E i \in DOMAIN stateChangeListeners : stateChangeListeners[i] \in detached
    /\ (Range(stateChangeListeners) \cup Range(discoverListeners)) \ {NoopListener}
          \subseteq detached

\* C12: unsubscribeRealtimeData detaches the radio-state listener. When the
\* session was left while it waited for the radio, a later 'poweredOn'
\* notification starts no scan and registers no discovery subscription.
C12_Step ==
    (IdleAfterAwaiting /\ last'.op = "stateChange" /\ nobleState' = "poweredOn") =>
        /\ ~scanning'
        /\ discoverListeners' = discoverListeners

C12_UnsubscribeDetachesStateListener == [][C12_Step]_vars

-----------------------------------------------------------------------------
(* C13 *)

\* A callback is waiting for the radio and has not been unsubscribed.
Awaiting ==
    \E i \in DOMAIN stateChangeListeners :
        stateChangeListeners[i] \in Callbacks \ detached

\* C13: radio not ready. subscribeRealtimeData while the radio is not powered
\* on starts no scan and waits; a 'poweredOn' notification then starts the
\* scan; any other notification leaves the session without a scan and raises
\* no error.
C13_Step ==
    /\ (last'.op = "subscribe" /\ nobleState # "poweredOn") =>
          /\ UNCHANGED <<scanning, discoverListeners>>
          /\ Len(stateChangeListeners') = Len(stateChangeListeners) + 1
    /\ (Awaiting /\ last'.op = "stateChange") =>
          IF nobleState' = "poweredOn"
          THEN /\ scanning'
               /\ Len(discoverListeners') > Len(discoverListeners)
          ELSE /\ ~last'.threw
               /\ ~scanning'
               /\ discoverListeners' = discoverListeners

C13_RadioNotReady == [][C13_Step]_vars

-----------------------------------------------------------------------------
(* C14 *)

\* C14: unsubscribeRealtimeData does not cancel a handshake in flight. When
\* the connect succeeds with an address after the session was unsubscribed,
\* the entry is resolved with that address, and the snapshot the callback
\* writes holds it.
C14_HandshakeSurvivesUnsubscribe ==
    (last.op = "connect" /\ ~last.err /\ IsAddress(last.address) /\ detached # {}) =>
        LET u == last.peripheral.uuid
        IN  /\ EntryResolved(u)
            /\ uuid_to_address_[u] = last.address
            /\ last.write = "written" =>
                  /\ disk.status = "ok"
                  /\ u \in DOMAIN disk.text
                  /\ disk.text[u] = last.address

\* The session was unsubscribed after the discovery that started the
\* handshake (no scan could have started since: no subscribe followed, and no
\* callback waits for the radio), and the connect then succeeded.
C14_Witness ==
    /\ last.op = "connect"
    /\ ~last.err
    /\ last.write = "written"
    /\ detached # {}
    /\ ~scanning
    /\ Range(stateChangeListeners) \subseteq {NoopListener}
    /\ EntryResolved(last.peripheral.uuid)
    /\ last.peripheral.uuid \in DOMAIN disk.text

-----------------------------------------------------------------------------
(* C15 *)

\* C15: connect is always followed by disconnect. A connect callback without
\* err requests one disconnect for its device, also when the save that comes
\* after it throws; a connect callback with err requests none; and no other
\* step requests a disconnect.
C15_Step ==
    /\ \A u \in ScanIds :
          disconnecting'[u] # disconnecting[u] =>
              \/ /\ last'.op = "connect"
                 /\ ~last'.err
                 /\ last'.peripheral.uuid = u
                 /\ connecting[u] > 0
                 /\ connecting'[u] = connecting[u] - 1
                 /\ disconnecting'[u] = disconnecting[u] + 1
              \/ /\ last'.op = "disconnect"
                 /\ last'.peripheral.uuid = u
                 /\ disconnecting'[u] = disconnecting[u] - 1
    /\ last'.op = "connect" =>
          LET u == last'.peripheral.uuid
          IN  IF last'.err
              THEN /\ last'.disconnects = 0
                   /\ disconnecting' = disconnecting
              ELSE /\ last'.disconnects = 1
                   /\ disconnecting'[u] = disconnecting[u] + 1
    /\ last'.op # "connect" => last'.disconnects = 0

C15_ConnectThenDisconnect == [][C15_Step]_vars

\* A connect succeeded, its disconnect was requested, and the save threw.
C15_Witness ==
    /\ last.op = "connect"
    /\ ~last.err
    /\ last.threw
    /\ last.disconnects = 1
    /\ disconnecting[last.peripheral.uuid] = 1

-----------------------------------------------------------------------------
(* C16 *)

\* C16: disconnect errors are resolution failures. Once the disconnect of a
\* handshake has reported an error, the entry of its scan identifier is absent,
\* and no callback was invoked.
C16_ForgetOnDisconnectError ==
    (last.op = "disconnect" /\ last.err) =>
        /\ EntryAbsent(last.peripheral.uuid)
        /\ last.delivered = <<>>

-----------------------------------------------------------------------------
(* C17 *)

\* C17: load failure self-heals. Right after a construction that found the
\* file missing or unreadable, every scan identifier is absent and the file
\* holds the empty mapping; after one that found it readable, the file is as
\* it was found.
C17_LoadFailureSelfHeals ==
    last.op \in {"constructor", "restart"} =>
        /\ last.found.status \in {"missing", "corrupt"} =>
              /\ \A u \in ScanIds : EntryAbsent(u)
              /\ disk.status = "ok"
              /\ DOMAIN disk.text = {}
        /\ last.found.status = "ok" => disk = last.found

\* A write that failed half way left the file unreadable, and the next
\* construction healed it.
C17_Witness ==
    /\ last.op = "restart"
    /\ last.found.status = "corrupt"
    /\ \E u \in ScanIds : ResolvedIn(last.before.uuid_to_address_, u)
    /\ disk.status = "ok"
    /\ DOMAIN disk.text = {}

-----------------------------------------------------------------------------
(* C18 *)

\* C18: coexisting instances do not lose resolved identities. A save by
\* either instance, after a handshake that obtained an address, keeps every
\* scan identifier the file held as resolved, with the same address.
C18_Step ==
    (last'.write = "written" /\ IsAddress(last'.address) /\ disk.status = "ok") =>
        /\ disk'.status = "ok"
        /\ \A u \in DOMAIN disk.text :
              /\ u \in DOMAIN disk'.text
              /\ disk'.text[u] = disk.text[u]

C18_SavesKeepResolvedIdentities == [][C18_Step]_vars

-----------------------------------------------------------------------------
(* C19 *)

\* A bit-serial CRC register with the reflected polynomial 0xA001: one
\* message bit is clocked in at a time, least significant bit of each byte
\* first; the feedback is the register's low bit XOR the message bit, and
\* after the shift it inverts the register's bits 15, 13 and 0.
RefFlip(reg, k) ==
    IF (reg \div (2 ^ k)) % 2 = 1 THEN reg - 2 ^ k ELSE reg + 2 ^ k

RefClock(reg, bit) ==
    LET shifted == reg \div 2
    IN  IF (reg + bit) % 2 = 1
        THEN RefFlip(RefFlip(RefFlip(shifted, 15), 13), 0)
        ELSE shifted

RECURSIVE RefByte(_, _, _)
RefByte(reg, byte, n) ==
    IF n = 0 \/ reg < 0 THEN reg
    ELSE RefByte(RefClock(reg, byte % 2), byte \div 2, n - 1)

RECURSIVE RefCrc(_, _)
RefCrc(reg, message) ==
    IF message = <<>> \/ reg < 0 THEN reg
    ELSE RefCrc(RefByte(reg, Head(message), 8), Tail(message))

\* C19: getCrc16 is a total function into the 16-bit unsigned integers. It
\* starts from 0xFFFF, its accumulator stays within 0..0xFFFF after every
\* step, and what it returns is the bit-serial reference CRC of the buffer
\* (0xFFFF for the empty buffer), which is also what the rest of the model
\* uses as getCrc16.
C19_Crc16IsReferenceCrc ==
    pc.at \in {"for byte", "for i", "return"} =>
        /\ calcCrc16 \in 0..65535
        /\ (pc.at = "for byte" /\ pc.byte = 1) => calcCrc16 = 65535
        /\ pc.at = "return" =>
              /\ calcCrc16 = RefCrc(65535, calcBuffer)
              /\ calcCrc16 = getCrc16(calcBuffer)
              /\ calcBuffer = <<>> => calcCrc16 = 65535

\* getCrc16 has returned the checksum of a frame's first five bytes: the one
\* the frame carries at offsets 5-6.
C19_Witness ==
    /\ pc.at = "return"
    /\ calcBuffer = <<102, 8, 156, 21, 0>>
    /\ calcCrc16 = 214 * 256 + 224

-----------------------------------------------------------------------------
(* C20 *)

\* C20: signed temperature decode. With raw = b1 * 256 + b0, the temperature
\* in hundredths is raw below 0x8000 and raw - 0x10000 from 0x8000 on, that is
\* the one value in -32768..32767 congruent to raw modulo 0x10000; the
\* humidity in hundredths is b3 * 256 + b2, within 0..65535.
C20_SignedTemperatureDecode ==
    decoded # <<>> =>
        LET raw == calcBuffer[2] * 256 + calcBuffer[1]
            temperature == decoded[1].temperature
            humidity == decoded[1].humidity
        IN  /\ raw < 32768 => temperature = raw
            /\ raw >= 32768 => temperature = raw - 65536
            /\ temperature \in -32768..32767
            /\ (temperature - raw) % 65536 = 0
            /\ raw = 65436 => temperature = -100
            /\ raw = 2150 => temperature = 2150
            /\ humidity = calcBuffer[4] * 256 + calcBuffer[3]
            /\ humidity \in 0..65535

\* The bytes 0x9C 0xFF were decoded as -1.00 degrees.
C20_Witness ==
    /\ decoded # <<>>
    /\ calcBuffer[1] = 156
    /\ calcBuffer[2] = 255
    /\ decoded[1].temperature = -100

====
